---- MODULE Spec2Model ----
(***************************************************************************)
(* Model of src/app.py: the /generate_gift_idea request handler, the       *)
(* text normaliser and record extractor it runs on the language model's    *)
(* answer, the process-wide list all_gift_ideas, and perform_search.       *)
(*                                                                         *)
(* Python strings are sequences of one-character strings, so that          *)
(* split, strip, replace, startswith and the regular expressions of        *)
(* clean_text are computed character by character as the interpreter       *)
(* computes them.                                                          *)
(***************************************************************************)
EXTENDS Integers, Sequences, FiniteSets, TLC

(***************************************************************************)
(* String layer                                                            *)
(***************************************************************************)

\* the characters str.strip() trims and the regex class \s matches
WhiteSpace == {" ", "\t", "\n", "\r", "\f"}

\* the regex class \d
Digits == {"0", "1", "2", "3", "4", "5", "6", "7", "8", "9"}

\* the literal "Reason:" of process_and_structure_gift_ideas
ReasonMarker == <<"R", "e", "a", "s", "o", "n", ":">>

\* the literal "Product_name:" of remove_product_name_prefix
ProductNamePrefix == <<"P", "r", "o", "d", "u", "c", "t", "_", "n", "a", "m", "e", ":">>

\* the literal of the f-string 'No items found for keyword: {keyword}'
NoItemsPrefix == <<"N", "o", " ", "i", "t", "e", "m", "s", " ", "f", "o", "u", "n", "d", " ", "f", "o", "r", " ", "k", "e", "y", "w", "o", "r", "d", ":", " ">>

\* str.startswith(p)
StartsWith(s, p) == Len(s) >= Len(p) /\ SubSeq(s, 1, Len(p)) = p

\* the test  p in s  on two strings
Contains(s, p) == \E k \in 0..(Len(s) - Len(p)) : SubSeq(s, k + 1, k + Len(p)) = p

RECURSIVE lstrip(_)
lstrip(s) ==
    IF s = <<>> THEN s
    ELSE IF Head(s) \in WhiteSpace THEN lstrip(Tail(s)) ELSE s

RECURSIVE rstrip(_)
rstrip(s) ==
    IF s = <<>> THEN s
    ELSE IF s[Len(s)] \in WhiteSpace THEN rstrip(SubSeq(s, 1, Len(s) - 1)) ELSE s

\* str.strip()
strip(s) == rstrip(lstrip(s))

\* str.replace(p, ""): the non-overlapping occurrences of p, left to right
RECURSIVE RemoveAll(_, _)
RemoveAll(s, p) ==
    IF Len(s) < Len(p) \/ s = <<>> THEN s
    ELSE IF StartsWith(s, p) THEN RemoveAll(SubSeq(s, Len(p) + 1, Len(s)), p)
    ELSE <<Head(s)>> \o RemoveAll(Tail(s), p)

\* str.split('\n'): always at least one piece, empty pieces kept
RECURSIVE SplitLines(_, _)
SplitLines(s, cur) ==
    IF s = <<>> THEN <<cur>>
    ELSE IF Head(s) = "\n" THEN <<cur>> \o SplitLines(Tail(s), <<>>)
    ELSE SplitLines(Tail(s), Append(cur, Head(s)))

split(s) == SplitLines(s, <<>>)

(***************************************************************************)
(* clean_text                                                              *)
(***************************************************************************)

\* re.sub(r'[*-]', '', text)
RECURSIVE RemoveDecorations(_)
RemoveDecorations(s) ==
    IF s = <<>> THEN s
    ELSE IF Head(s) \in {"*", "-"} THEN RemoveDecorations(Tail(s))
    ELSE <<Head(s)>> \o RemoveDecorations(Tail(s))

\* length of the longest prefix of s whose characters are all in cls
RECURSIVE RunLen(_, _)
RunLen(s, cls) ==
    IF s = <<>> THEN 0
    ELSE IF Head(s) \in cls THEN 1 + RunLen(Tail(s), cls) ELSE 0

\* length of the match of \d+\.\s* at the start of s, 0 when it does not
\* match there (\d+ is greedy and the dot must follow the whole digit run)
MarkerLen(s) ==
    LET d == RunLen(s, Digits)
    IN  IF d > 0 /\ Len(s) > d /\ s[d + 1] = "."
        THEN d + 1 + RunLen(SubSeq(s, d + 2, Len(s)), WhiteSpace)
        ELSE 0

\* re.sub(r'\d+\.\s*', '', text): leftmost non-overlapping matches
RECURSIVE RemoveMarkers(_)
RemoveMarkers(s) ==
    IF s = <<>> THEN s
    ELSE LET m == MarkerLen(s)
         IN  IF m > 0 THEN RemoveMarkers(SubSeq(s, m + 1, Len(s)))
             ELSE <<Head(s)>> \o RemoveMarkers(Tail(s))

\* the two substitutions in the other order
clean_text_swapped(text) == RemoveDecorations(RemoveMarkers(text))

clean_text(text) == RemoveMarkers(RemoveDecorations(text))

(***************************************************************************)
(* process_and_structure_gift_ideas                                        *)
(***************************************************************************)

remove_product_name_prefix(name) ==
    IF StartsWith(name, ProductNamePrefix)
    THEN strip(SubSeq(name, Len(ProductNamePrefix) + 1, Len(name)))
    ELSE name

\* the locals of the line loop before the first line; product_line = None is
\* has_line = FALSE
LoopStart == [product_names |-> <<>>, reasons |-> <<>>, has_line |-> FALSE, product_line |-> <<>>]

\* an iteration that does not reset product_line after a Reason line
LineStepKeepsName(st, raw) ==
    LET line == strip(raw)
    IN  IF line = <<>> THEN st
        ELSE IF Contains(line, ReasonMarker)
        THEN [st EXCEPT !.reasons = Append(@, strip(RemoveAll(line, ReasonMarker))),
                        !.product_names = IF st.has_line THEN Append(@, st.product_line) ELSE @]
        ELSE IF ~st.has_line
        THEN [st EXCEPT !.has_line = TRUE, !.product_line = line]
        ELSE [st EXCEPT !.product_line = st.product_line \o <<" ">> \o line]

\* an iteration that joins a continuation line without the space
LineStepNoSpace(st, raw) ==
    LET line == strip(raw)
    IN  IF line = <<>> THEN st
        ELSE IF Contains(line, ReasonMarker)
        THEN [st EXCEPT !.reasons = Append(@, strip(RemoveAll(line, ReasonMarker))),
                        !.product_names = IF st.has_line THEN Append(@, st.product_line) ELSE @,
                        !.has_line = FALSE,
                        !.product_line = <<>>]
        ELSE IF ~st.has_line
        THEN [st EXCEPT !.has_line = TRUE, !.product_line = line]
        ELSE [st EXCEPT !.product_line = st.product_line \o line]

\* one iteration of  for line in lines  on the locals st
LineStep(st, raw) ==
    LET line == strip(raw)
    IN  IF line = <<>> THEN st
        ELSE IF Contains(line, ReasonMarker)
        THEN [st EXCEPT !.reasons = Append(@, strip(RemoveAll(line, ReasonMarker))),
                        !.product_names = IF st.has_line THEN Append(@, st.product_line) ELSE @,
                        !.has_line = FALSE,
                        !.product_line = <<>>]
        ELSE IF ~st.has_line
        THEN [st EXCEPT !.has_line = TRUE, !.product_line = line]
        ELSE [st EXCEPT !.product_line = st.product_line \o <<" ">> \o line]

RECURSIVE LineLoop(_, _)
LineLoop(st, lines) ==
    IF lines = <<>> THEN st ELSE LineLoop(LineStep(st, Head(lines)), Tail(lines))

Min(a, b) == IF a <= b THEN a ELSE b

\* the loop over zip(product_names, reasons)
Combine(product_names, reasons) ==
    [k \in 1..Min(Len(product_names), Len(reasons)) |->
        [keyword |-> product_names[k], reason |-> reasons[k]]]

\* an extraction that closes a name still pending at the end of the text
\* with an empty reason
process_and_structure_flushing(text) ==
    LET st == LineLoop(LoopStart, split(text))
        pending == IF st.has_line THEN <<st.product_line>> ELSE <<>>
        names == [k \in 1..Len(st.product_names \o pending) |->
                     remove_product_name_prefix((st.product_names \o pending)[k])]
    IN  Combine(names, st.reasons \o [k \in 1..Len(pending) |-> <<>>])

process_and_structure_gift_ideas(text) ==
    LET st == LineLoop(LoopStart, split(text))
        names == [k \in 1..Len(st.product_names) |-> remove_product_name_prefix(st.product_names[k])]
    IN  Combine(names, st.reasons)


(***************************************************************************)
(* filter_unique_gift_ideas and the list operations of the handler         *)
(***************************************************************************)

\* a membership test that compares the keyword only
InListByKeyword(idea, lst) == \E k \in 1..Len(lst) : lst[k].keyword = idea.keyword

\* idea in lst : list membership by dict equality, a scan from the left
RECURSIVE InList(_, _)
InList(idea, lst) ==
    IF lst = <<>> THEN FALSE
    ELSE IF Head(lst).keyword = idea.keyword /\ Head(lst).reason = idea.reason THEN TRUE
    ELSE InList(idea, Tail(lst))

\* [idea for idea in new_gift_ideas if idea not in all_gift_ideas]
RECURSIVE filter_unique_gift_ideas(_, _)
filter_unique_gift_ideas(new_gift_ideas, seen) ==
    IF new_gift_ideas = <<>> THEN <<>>
    ELSE IF ~InList(Head(new_gift_ideas), seen)
         THEN <<Head(new_gift_ideas)>> \o filter_unique_gift_ideas(Tail(new_gift_ideas), seen)
         ELSE filter_unique_gift_ideas(Tail(new_gift_ideas), seen)

\* an extend that drops the new items
extend_dropped(lst, items) == lst

\* list.extend(items)
extend(lst, items) == lst \o items

\* keywords = [item['keyword'] for item in gift_ideas]
KeywordsOf(ideas) == [k \in 1..Len(ideas) |-> ideas[k].keyword]

\* list.index(x): the first position holding x
RECURSIVE IndexFrom(_, _, _)
IndexFrom(lst, x, k) ==
    IF k > Len(lst) THEN 0
    ELSE IF lst[k] = x THEN k ELSE IndexFrom(lst, x, k + 1)

index(lst, x) == IndexFrom(lst, x, 1)


(***************************************************************************)
(* Bounds and the inputs of the model                                      *)
(***************************************************************************)

\* number of HTTP requests the server receives
NumRequests == 2

Requests == 1..NumRequests

\* the answers of the language model fed to the handler: two ideas with one
\* keyword and two reasons (numbered and starred), one pair twice, a single
\* labelled pair, and a Reason line with no name before it
ModelTexts ==
    { <<"1", ".", " ", "*", "A", "*", "\n", "R", "e", "a", "s", "o", "n", ":", " ", "x", "\n",
        "2", ".", " ", "*", "A", "*", "\n", "R", "e", "a", "s", "o", "n", ":", " ", "y">>,
      <<"A", "\n", "R", "e", "a", "s", "o", "n", ":", " ", "x", "\n",
        "A", "\n", "R", "e", "a", "s", "o", "n", ":", " ", "x">>,
      <<"P", "r", "o", "d", "u", "c", "t", "_", "n", "a", "m", "e", ":", " ", "B", "\n",
        "R", "e", "a", "s", "o", "n", ":", " ", "x">> }

\* the items the product search returns as first match
Items == { [title |-> <<"T">>, image |-> <<"I">>, price |-> <<"P">>, url |-> <<"U">>] }

\* str(e) of the ApiException the product search raises
ApiErrors == { <<"4", "2", "9">> }

(***************************************************************************)
(* State                                                                   *)
(***************************************************************************)

VARIABLES
    all_gift_ideas,     \* the module-level list
    pc,                 \* where each request's thread stands in generate_gift_idea
    response_text,      \* response.text, the language model's answer
    cleaned_text,       \* the local cleaned_text
    gift_ideas,         \* the local gift_ideas
    unique_gift_ideas,  \* the local unique_gift_ideas
    i,                  \* perform_search: number of keywords the for loop has taken
    results,            \* perform_search: the local results
    calls,              \* the search_items calls issued for the request, with their outcome
    http,               \* the HTTP response returned, status 0 while there is none
    model_call          \* the generate_content call of the request: "none", "pending", "returned", "raised"

vars == <<all_gift_ideas, pc, response_text, cleaned_text, gift_ideas,
          unique_gift_ideas, i, results, calls, http, model_call>>

NoResponse == [status |-> 0]

\* return jsonify(search_results)
Ok(search_results) == [status |-> 200, body |-> search_results]

\* the except clause of generate_gift_idea: one error object, status 500;
\* stage names the statement that raised
ServerError(stage) == [status |-> 500, error |-> stage]

Init ==
    /\ all_gift_ideas = <<>>
    /\ pc = [r \in Requests |-> "idle"]
    /\ response_text = [r \in Requests |-> <<>>]
    /\ cleaned_text = [r \in Requests |-> <<>>]
    /\ gift_ideas = [r \in Requests |-> <<>>]
    /\ unique_gift_ideas = [r \in Requests |-> <<>>]
    /\ i = [r \in Requests |-> 0]
    /\ results = [r \in Requests |-> <<>>]
    /\ calls = [r \in Requests |-> <<>>]
    /\ http = [r \in Requests |-> NoResponse]
    /\ model_call = [r \in Requests |-> "none"]


(***************************************************************************)
(* generate_gift_idea, one thread per request                              *)
(***************************************************************************)

\* lines 44-50: the body is read, the prompt composed and the language model
\* called
Receive(r) ==
    /\ pc[r] = "idle"
    /\ pc' = [pc EXCEPT ![r] = "model"]
    /\ model_call' = [model_call EXCEPT ![r] = "pending"]
    /\ UNCHANGED <<all_gift_ideas, response_text, cleaned_text, gift_ideas,
                   unique_gift_ideas, i, results, calls, http>>

\* lines 44-47 raise (no JSON body, a body that is not an object): the except
\* clause answers
ReceiveMalformed(r) ==
    /\ pc[r] = "idle"
    /\ pc' = [pc EXCEPT ![r] = "done"]
    /\ http' = [http EXCEPT ![r] = ServerError("compose")]
    /\ UNCHANGED <<all_gift_ideas, response_text, cleaned_text, gift_ideas,
                   unique_gift_ideas, i, results, calls, model_call>>

\* line 50 returns and line 51 reads response.text
ModelReturns(r, text) ==
    /\ pc[r] = "model"
    /\ response_text' = [response_text EXCEPT ![r] = text]
    /\ pc' = [pc EXCEPT ![r] = "extract"]
    /\ model_call' = [model_call EXCEPT ![r] = "returned"]
    /\ UNCHANGED <<all_gift_ideas, cleaned_text, gift_ideas, unique_gift_ideas,
                   i, results, calls, http>>

\* a handler that goes on with an empty answer when the model call raises
ModelFailsSwallowed(r) ==
    /\ pc[r] = "model"
    /\ pc' = [pc EXCEPT ![r] = "extract"]
    /\ model_call' = [model_call EXCEPT ![r] = "raised"]
    /\ UNCHANGED <<all_gift_ideas, response_text, cleaned_text, gift_ideas,
                   unique_gift_ideas, i, results, calls, http>>

\* line 50 or line 51 raises: control goes to the except clause of line 70
ModelFails(r) ==
    /\ pc[r] = "model"
    /\ pc' = [pc EXCEPT ![r] = "done"]
    /\ http' = [http EXCEPT ![r] = ServerError("model")]
    /\ model_call' = [model_call EXCEPT ![r] = "raised"]
    /\ UNCHANGED <<all_gift_ideas, response_text, cleaned_text, gift_ideas,
                   unique_gift_ideas, i, results, calls>>

\* lines 53-57
Extract(r) ==
    /\ pc[r] = "extract"
    /\ cleaned_text' = [cleaned_text EXCEPT ![r] = clean_text(response_text[r])]
    /\ gift_ideas' = [gift_ideas EXCEPT ![r] = process_and_structure_gift_ideas(cleaned_text'[r])]
    /\ pc' = [pc EXCEPT ![r] = "filter"]
    /\ UNCHANGED <<all_gift_ideas, response_text, unique_gift_ideas, i, results, calls, http, model_call>>

\* line 59: reads the shared list
Filter(r) ==
    /\ pc[r] = "filter"
    /\ unique_gift_ideas' = [unique_gift_ideas EXCEPT ![r] =
                                filter_unique_gift_ideas(gift_ideas[r], all_gift_ideas)]
    /\ pc' = [pc EXCEPT ![r] = "extend"]
    /\ UNCHANGED <<all_gift_ideas, response_text, cleaned_text, gift_ideas, i, results, calls, http, model_call>>

\* line 62: writes the shared list; no lock is held between line 59 and here
Extend(r) ==
    /\ pc[r] = "extend"
    /\ all_gift_ideas' = extend(all_gift_ideas, unique_gift_ideas[r])
    /\ pc' = [pc EXCEPT ![r] = "search"]
    /\ UNCHANGED <<response_text, cleaned_text, gift_ideas, unique_gift_ideas, i, results, calls, http, model_call>>

(***************************************************************************)
(* perform_search(unique_gift_ideas), called at line 65                    *)
(***************************************************************************)

\* the keyword the for loop of line 80 is at
Keyword(r) == KeywordsOf(unique_gift_ideas[r])[i[r]]

\* lines 100-107: the result dict for a match
MatchEntry(ideas, keyword, item) ==
    [name |-> keyword, title |-> item.title, image |-> item.image, price |-> item.price,
     url |-> item.url, reason |-> ideas[index(KeywordsOf(ideas), keyword)].reason]

\* a loop that goes to the next keyword without an entry
AppendSkipped(res, keyword) == res

\* line 110
AppendNoItems(res, keyword) == Append(res, [error |-> NoItemsPrefix \o keyword])

\* line 114
AppendApiError(res, e) == Append(res, [error |-> e])

\* lines 80-95: the loop takes the next keyword and calls search_items
SearchIssue(r) ==
    /\ pc[r] = "search"
    /\ i[r] < Len(unique_gift_ideas[r])
    /\ i' = [i EXCEPT ![r] = @ + 1]
    /\ calls' = [calls EXCEPT ![r] =
                    Append(@, [keywords |-> strip(KeywordsOf(unique_gift_ideas[r])[i'[r]]),
                               outcome |-> "pending"])]
    /\ pc' = [pc EXCEPT ![r] = "await"]
    /\ UNCHANGED <<all_gift_ideas, response_text, cleaned_text, gift_ideas,
                   unique_gift_ideas, results, http, model_call>>

Answered(r, outcome) == [calls EXCEPT ![r][i[r]].outcome = outcome]

\* lines 95-108: the search returns at least one item
SearchMatch(r, item) ==
    /\ pc[r] = "await"
    /\ results' = [results EXCEPT ![r] = Append(@, MatchEntry(unique_gift_ideas[r], Keyword(r), item))]
    /\ calls' = Answered(r, "match")
    /\ pc' = [pc EXCEPT ![r] = "search"]
    /\ UNCHANGED <<all_gift_ideas, response_text, cleaned_text, gift_ideas,
                   unique_gift_ideas, i, http, model_call>>

\* an empty answer that raises (items[0] taken without the test of line 98)
\* and leaves perform_search
SearchNoMatchRaises(r) ==
    /\ pc[r] = "await"
    /\ calls' = Answered(r, "none")
    /\ pc' = [pc EXCEPT ![r] = "done"]
    /\ http' = [http EXCEPT ![r] = ServerError("search")]
    /\ UNCHANGED <<all_gift_ideas, response_text, cleaned_text, gift_ideas,
                   unique_gift_ideas, i, results, model_call>>

\* lines 95-98, 109-110: the search returns no item
SearchNoMatch(r) ==
    /\ pc[r] = "await"
    /\ results' = [results EXCEPT ![r] = AppendNoItems(@, Keyword(r))]
    /\ calls' = Answered(r, "none")
    /\ pc' = [pc EXCEPT ![r] = "search"]
    /\ UNCHANGED <<all_gift_ideas, response_text, cleaned_text, gift_ideas,
                   unique_gift_ideas, i, http, model_call>>

\* an except clause that searches the same keyword again
SearchApiExceptionRetries(r, e) ==
    /\ pc[r] = "await"
    /\ calls' = Answered(r, "api_exception")
    /\ i' = [i EXCEPT ![r] = @ - 1]
    /\ pc' = [pc EXCEPT ![r] = "search"]
    /\ UNCHANGED <<all_gift_ideas, response_text, cleaned_text, gift_ideas,
                   unique_gift_ideas, results, http, model_call>>

\* lines 95, 112-114: the search raises ApiException
SearchApiException(r, e) ==
    /\ pc[r] = "await"
    /\ results' = [results EXCEPT ![r] = AppendApiError(@, e)]
    /\ calls' = Answered(r, "api_exception")
    /\ pc' = [pc EXCEPT ![r] = "search"]
    /\ UNCHANGED <<all_gift_ideas, response_text, cleaned_text, gift_ideas,
                   unique_gift_ideas, i, http, model_call>>

\* lines 95-107 raise an exception that is not an ApiException (a transport
\* error of the HTTP client, an attribute of the matched item that is None):
\* the except clause of line 112 does not apply, perform_search is left and
\* the except clause of line 70 answers
SearchFault(r) ==
    /\ pc[r] = "await"
    /\ calls' = Answered(r, "fault")
    /\ pc' = [pc EXCEPT ![r] = "done"]
    /\ http' = [http EXCEPT ![r] = ServerError("search")]
    /\ UNCHANGED <<all_gift_ideas, response_text, cleaned_text, gift_ideas,
                   unique_gift_ideas, i, results, model_call>>

\* lines 116-117 and 68: the loop is over, the results are returned
Return(r) ==
    /\ pc[r] = "search"
    /\ i[r] = Len(unique_gift_ideas[r])
    /\ http' = [http EXCEPT ![r] = Ok(results[r])]
    /\ pc' = [pc EXCEPT ![r] = "done"]
    /\ UNCHANGED <<all_gift_ideas, response_text, cleaned_text, gift_ideas,
                   unique_gift_ideas, i, results, calls, model_call>>

(***************************************************************************)
(* The server: app.run serves every request on a thread of its own, the    *)
(* threads interleave at the statements that read or write shared state    *)
(* and at the external calls                                               *)
(***************************************************************************)

Step(r) ==
    \/ Receive(r)
    \/ ReceiveMalformed(r)
    \/ \E text \in ModelTexts : ModelReturns(r, text)
    \/ ModelFails(r)
    \/ Extract(r)
    \/ Filter(r)
    \/ Extend(r)
    \/ SearchIssue(r)
    \/ \E item \in Items : SearchMatch(r, item)
    \/ SearchNoMatch(r)
    \/ \E e \in ApiErrors : SearchApiException(r, e)
    \/ SearchFault(r)
    \/ Return(r)

Next == \E r \in Requests : Step(r)

Spec == Init /\ [][Next]_vars


(***************************************************************************)
(* Requests served one after another                                       *)
(***************************************************************************)

\* no request other than r is being served
Alone(r) == \A q \in Requests \ {r} : pc[q] \in {"idle", "done"}

NextSerial == \E r \in Requests : Alone(r) /\ Step(r)

SpecSerial == Init /\ [][NextSerial]_vars

(***************************************************************************)
(* filter_unique_gift_ideas on every idea list and every content of        *)
(* all_gift_ideas within the bounds                                        *)
(***************************************************************************)

\* longest idea list, and longest content of all_gift_ideas, drawn as input
MaxIdeas == 2

SeqsUpTo(S, n) == UNION { [1..k -> S] : k \in 0..n }

IdeaPairs == [keyword : {<<"A">>, <<"B">>}, reason : {<<"x">>, <<"y">>}]

IdeaLists == SeqsUpTo(IdeaPairs, MaxIdeas)

\* an answer of the language model in the format the prompt asks for
RECURSIVE Render(_)
Render(ideas) ==
    IF ideas = <<>> THEN <<>>
    ELSE ProductNamePrefix \o <<" ">> \o Head(ideas).keyword \o <<"\n">>
         \o ReasonMarker \o <<" ">> \o Head(ideas).reason \o <<"\n">> \o Render(Tail(ideas))

RenderedTexts == { Render(ideas) : ideas \in IdeaLists }

\* the process has served earlier requests that left any list of pairs
InitFilter ==
    /\ all_gift_ideas \in IdeaLists
    /\ pc = [r \in Requests |-> "idle"]
    /\ response_text = [r \in Requests |-> <<>>]
    /\ cleaned_text = [r \in Requests |-> <<>>]
    /\ gift_ideas = [r \in Requests |-> <<>>]
    /\ unique_gift_ideas = [r \in Requests |-> <<>>]
    /\ i = [r \in Requests |-> 0]
    /\ results = [r \in Requests |-> <<>>]
    /\ calls = [r \in Requests |-> <<>>]
    /\ http = [r \in Requests |-> NoResponse]
    /\ model_call = [r \in Requests |-> "none"]

NextFilter ==
    \/ Receive(1)
    \/ \E text \in RenderedTexts : ModelReturns(1, text)
    \/ Extract(1)
    \/ Filter(1)
    \/ Extend(1)

SpecFilter == InitFilter /\ [][NextFilter]_vars

(***************************************************************************)
(* clean_text and process_and_structure_gift_ideas on the texts within     *)
(* the bounds                                                              *)
(***************************************************************************)

\* most lines of a generated answer
MaxLines == 4

LineChoices ==
    { <<>>,
      <<"A">>,
      <<" ", "b", " ", "c">>,
      <<"R", "e", "a", "s", "o", "n", ":", " ", "x">>,
      <<"R", "e", "a", "s", "o", "n", ":", "y", " ">>,
      <<"z", " ", "R", "e", "a", "s", "o", "n", ":", " ", "x">>,
      <<"P", "r", "o", "d", "u", "c", "t", "_", "n", "a", "m", "e", ":", " ", "A">>,
      <<"P", "r", "o", "d", "u", "c", "t", "_", "n", "a", "m", "e", ":">> }

RECURSIVE JoinLines(_)
JoinLines(lines) ==
    IF lines = <<>> THEN <<>>
    ELSE IF Len(lines) = 1 THEN Head(lines)
    ELSE Head(lines) \o <<"\n">> \o JoinLines(Tail(lines))

\* "Reason: no name before this\nGamma toy\nReason: good one"
OrphanReasonText ==
    <<"R", "e", "a", "s", "o", "n", ":", " ", "n", "o", " ", "n", "a", "m", "e", " ", "b", "e", "f", "o", "r", "e", " ", "t", "h", "i", "s", "\n",
      "G", "a", "m", "m", "a", " ", "t", "o", "y", "\n",
      "R", "e", "a", "s", "o", "n", ":", " ", "g", "o", "o", "d", " ", "o", "n", "e">>

\* "Alpha widget\nReason: great\nBeta gadget"
TrailingNameText ==
    <<"A", "l", "p", "h", "a", " ", "w", "i", "d", "g", "e", "t", "\n", "R", "e", "a", "s", "o", "n", ":", " ", "g", "r", "e", "a", "t", "\n", "B", "e", "t", "a", " ", "g", "a", "d", "g", "e", "t">>

\* "Delta\nwidget deluxe\nReason: nice"
MultiLineNameText ==
    <<"D", "e", "l", "t", "a", "\n", "w", "i", "d", "g", "e", "t", " ", "d", "e", "l", "u", "x", "e", "\n", "R", "e", "a", "s", "o", "n", ":", " ", "n", "i", "c", "e">>

ExampleTexts == { OrphanReasonText, TrailingNameText, MultiLineNameText }

TextInputs == { JoinLines(lines) : lines \in SeqsUpTo(LineChoices, MaxLines) } \cup ExampleTexts

NextText ==
    \/ Receive(1)
    \/ \E text \in TextInputs : ModelReturns(1, text)
    \/ Extract(1)

SpecText == Init /\ [][NextText]_vars


(***************************************************************************)
(* clean_text on every text over a small alphabet                          *)
(***************************************************************************)

\* longest text drawn character by character
MaxChars == 4

\* a digit, the dot, the two decorations, a space, a newline and a letter
CleanAlphabet == {"1", ".", "*", "-", " ", "\n", "a"}

CharTexts == SeqsUpTo(CleanAlphabet, MaxChars)

NextClean ==
    \/ Receive(1)
    \/ \E text \in CharTexts : ModelReturns(1, text)
    \/ Extract(1)

SpecClean == Init /\ [][NextClean]_vars

(***************************************************************************)
(* Properties                                                              *)
(***************************************************************************)

Range(s) == { s[k] : k \in 1..Len(s) }

\* the request has executed line 59
PastFilter(r) ==
    \/ pc[r] \in {"extend", "search", "await"}
    \/ pc[r] = "done" /\ (http[r].status = 200 \/ http[r].error = "search")

\* the request has executed line 62
PastExtend(r) ==
    \/ pc[r] \in {"search", "await"}
    \/ pc[r] = "done" /\ (http[r].status = 200 \/ http[r].error = "search")

\* C1: filter and append of a request are atomic with respect to the other
\* requests: whatever the interleaving, no (keyword, reason) pair is accepted
\* as unseen by two different requests.
C1_FilterAppendAtomic ==
    \A r1, r2 \in Requests :
        (r1 # r2 /\ PastFilter(r1) /\ PastFilter(r2))
            => Range(unique_gift_ideas[r1]) \cap Range(unique_gift_ideas[r2]) = {}

\* C2: all_gift_ideas never holds two elements with the same keyword and the
\* same reason, also after requests whose extracted list repeats a pair.
C2_SeenSetNoDuplicates ==
    \A a, b \in 1..Len(all_gift_ideas) :
        a # b => all_gift_ideas[a] # all_gift_ideas[b]

Unseen(idea) == \A k \in 1..Len(all_gift_ideas) : all_gift_ideas[k] # idea

\* C3: the list filter_unique_gift_ideas returns is exactly the subsequence,
\* in input order, of the ideas whose (keyword, reason) pair is not in
\* all_gift_ideas; an idea whose keyword is in all_gift_ideas with another
\* reason only is kept.
C3_FilterKeepsUnseenPairs ==
    pc[1] = "extend" =>
        /\ unique_gift_ideas[1] = SelectSeq(gift_ideas[1], Unseen)
        /\ \A k \in 1..Len(gift_ideas[1]) :
              Unseen(gift_ideas[1][k]) => gift_ideas[1][k] \in Range(unique_gift_ideas[1])

\* an idea list with one pair filtered out and, after it, one pair kept whose
\* keyword is in all_gift_ideas under another reason
C3_Witness ==
    /\ pc[1] = "extend"
    /\ Len(gift_ideas[1]) = 2
    /\ ~Unseen(gift_ideas[1][1])
    /\ Unseen(gift_ideas[1][2])
    /\ \E k \in 1..Len(all_gift_ideas) : all_gift_ideas[k].keyword = gift_ideas[1][2].keyword
    /\ unique_gift_ideas[1] = <<gift_ideas[1][2]>>

\* C4: with requests served one after another, a pair a request accepted is in
\* all_gift_ideas once the request has appended, no other request accepts
\* it, and of two requests with the same extracted ideas one yields none.
C4_SerialDedup ==
    /\ \A r \in Requests :
          PastExtend(r) => Range(unique_gift_ideas[r]) \subseteq Range(all_gift_ideas)
    /\ \A r1, r2 \in Requests :
          (r1 # r2 /\ PastFilter(r1) /\ PastFilter(r2)) =>
              /\ \A idea \in Range(unique_gift_ideas[r1]) : idea \notin Range(unique_gift_ideas[r2])
              /\ gift_ideas[r1] = gift_ideas[r2] =>
                    (unique_gift_ideas[r1] = <<>> \/ unique_gift_ideas[r2] = <<>>)

\* two requests with the same non-empty extracted ideas: one accepted them,
\* the other, served later, accepted none
C4_Witness ==
    \E r1, r2 \in Requests :
        /\ r1 # r2 /\ pc[r1] = "done" /\ pc[r2] = "done"
        /\ http[r1].status = 200 /\ http[r2].status = 200
        /\ gift_ideas[r1] # <<>> /\ gift_ideas[r1] = gift_ideas[r2]
        /\ unique_gift_ideas[r1] # <<>> /\ unique_gift_ideas[r2] = <<>>

\* the entry at one position is the one the code builds for the idea at that
\* position and the outcome of its search call
EntryFor(entry, idea, call) ==
    /\ call.keywords = strip(idea.keyword)
    /\ call.outcome = "match" => ("name" \in DOMAIN entry /\ entry.name = idea.keyword)
    /\ call.outcome = "none" => entry = [error |-> NoItemsPrefix \o idea.keyword]
    /\ call.outcome = "api_exception" => (DOMAIN entry = {"error"} /\ entry.error \in ApiErrors)
    /\ call.outcome \in {"match", "none", "api_exception"}

C6_AnyFaultIsItemLevel ==
    \A r \in Requests : \A k \in 1..Len(calls[r]) :
        calls[r][k].outcome \in {"api_exception", "fault"} =>
            /\ Len(results[r]) >= k
            /\ "error" \in DOMAIN results[r][k]
            /\ http[r].status # 500

\* C7: a search that returns no item gives the entry
\* {error: "No items found for keyword: <keyword>"} at the idea's position and
\* the loop goes on: the request is not failed by it.
C7_NoItemsEntry ==
    \A r \in Requests : \A k \in 1..Len(calls[r]) :
        calls[r][k].outcome = "none" =>
            /\ Len(results[r]) >= k
            /\ results[r][k] = [error |-> NoItemsPrefix \o unique_gift_ideas[r][k].keyword]
            /\ k = Len(calls[r]) =>
                  \/ pc[r] = "search"
                  \/ pc[r] = "done" /\ http[r].status = 200 /\ k = Len(unique_gift_ideas[r])

\* a search without items for the first idea, and the search for the second
\* idea issued after it
C7_Witness ==
    \E r \in Requests :
        /\ Len(calls[r]) = 2
        /\ calls[r][1].outcome = "none"
        /\ results[r][1] = [error |-> NoItemsPrefix \o <<"A">>]

\* C8: every success entry carries the reason of the idea at its own position.
C8_ReasonByPosition ==
    \A r \in Requests : \A k \in 1..Len(results[r]) :
        "reason" \in DOMAIN results[r][k] =>
            results[r][k].reason = unique_gift_ideas[r][k].reason

\* C9: a request whose language-model call raised ends with the single error
\* response; no search call is issued for it and it has no result entry.
C9_ModelFailureIsWhole ==
    \A r \in Requests :
        model_call[r] = "raised" =>
            /\ pc[r] = "done"
            /\ http[r] = ServerError("model")
            /\ calls[r] = <<>>
            /\ results[r] = <<>>

\* a request failed by the model call while another one has issued a search
C9_Witness ==
    \E r, q \in Requests :
        /\ model_call[r] = "raised"
        /\ http[r].status = 500
        /\ q # r /\ calls[q] # <<>>

\* the reason of a line holding the marker, as line 205 takes it
ReasonOf(line) == strip(RemoveAll(strip(line), ReasonMarker))

\* the first line of the text is a Reason line, so no name is pending at it,
\* and no later line gives the same reason
LeadingOrphan(text) ==
    LET lines == split(text)
    IN  /\ Contains(strip(lines[1]), ReasonMarker)
        /\ \A k \in 2..Len(lines) :
              Contains(strip(lines[k]), ReasonMarker) => ReasonOf(lines[k]) # ReasonOf(lines[1])

\* C10: a Reason line read while no name is pending gives no record and its
\* text is the reason of no record; the text "Reason: no name before
\* this\nGamma toy\nReason: good one" gives the one record (Gamma toy, good one).
C10_OrphanReasonDiscarded ==
    pc[1] = "filter" =>
        /\ LeadingOrphan(cleaned_text[1]) =>
              \A k \in 1..Len(gift_ideas[1]) :
                  gift_ideas[1][k].reason # ReasonOf(split(cleaned_text[1])[1])
        /\ response_text[1] = OrphanReasonText =>
              gift_ideas[1] = << [keyword |-> <<"G", "a", "m", "m", "a", " ", "t", "o", "y">>,
                                  reason |-> <<"g", "o", "o", "d", " ", "o", "n", "e">>] >>


(***************************************************************************)
(* The lines of a text as the extractor reads them                         *)
(***************************************************************************)

\* a line that holds the marker
IsReasonLine(l) == Contains(strip(l), ReasonMarker)

\* a line that is not empty once trimmed and holds no marker
IsNameLine(l) == strip(l) # <<>> /\ ~IsReasonLine(l)

\* the trimmed name lines read since the last Reason line before line k
RECURSIVE NameRun(_, _)
NameRun(lines, k) ==
    IF k = 0 \/ IsReasonLine(lines[k]) THEN <<>>
    ELSE IF IsNameLine(lines[k]) THEN Append(NameRun(lines, k - 1), strip(lines[k]))
    ELSE NameRun(lines, k - 1)

\* the positions, in text order, of the Reason lines read with a name pending
RECURSIVE CompletedUpTo(_, _)
CompletedUpTo(lines, k) ==
    IF k = 0 THEN <<>>
    ELSE IF IsReasonLine(lines[k]) /\ NameRun(lines, k - 1) # <<>>
         THEN Append(CompletedUpTo(lines, k - 1), k)
         ELSE CompletedUpTo(lines, k - 1)

Completed(lines) == CompletedUpTo(lines, Len(lines))

\* the strings of a list with one space between neighbours
RECURSIVE JoinWithSpace(_)
JoinWithSpace(parts) ==
    IF parts = <<>> THEN <<>>
    ELSE IF Len(parts) = 1 THEN Head(parts)
    ELSE Head(parts) \o <<" ">> \o JoinWithSpace(Tail(parts))

\* a name without its leading "Product_name:" label
DropLabel(name) ==
    IF Len(name) >= 13 /\ SubSeq(name, 1, 13) = ProductNamePrefix
    THEN strip(SubSeq(name, 14, Len(name)))
    ELSE name

\* C11: a name pending at the end of the text gives no record and leaves the
\* records before it as they are; "Alpha widget\nReason: great\nBeta gadget"
\* gives the one record (Alpha widget, great).
C11_TrailingNameDropped ==
    pc[1] = "filter" =>
        /\ LET lines == split(cleaned_text[1])
           IN  IsNameLine(lines[Len(lines)]) =>
                  gift_ideas[1] = process_and_structure_gift_ideas(
                                      JoinLines(SubSeq(lines, 1, Len(lines) - 1)))
        /\ response_text[1] = TrailingNameText =>
              gift_ideas[1] = << [keyword |-> <<"A", "l", "p", "h", "a", " ", "w", "i", "d", "g", "e", "t">>,
                                  reason |-> <<"g", "r", "e", "a", "t">>] >>

\* a text that ends in a name line after a completed record
C11_Witness ==
    /\ pc[1] = "filter"
    /\ LET lines == split(cleaned_text[1])
       IN  IsNameLine(lines[Len(lines)]) /\ Completed(lines) # <<>>
    /\ Len(gift_ideas[1]) = 1

\* C12: the extractor emits one record per Reason line read with a name
\* pending, and the keywords of the records are, in order, the names pending
\* at those Reason lines.
C12_OneRecordPerCompletedReason ==
    pc[1] = "filter" =>
        LET lines == split(cleaned_text[1])
            done == Completed(lines)
        IN  /\ Len(gift_ideas[1]) = Len(done)
            /\ \A k \in 1..Len(done) :
                  gift_ideas[1][k].keyword = DropLabel(JoinWithSpace(NameRun(lines, done[k] - 1)))

\* two records with different keywords from a text of four lines
C12_Witness ==
    /\ pc[1] = "filter"
    /\ Len(gift_ideas[1]) = 2
    /\ gift_ideas[1][1].keyword = <<"b", " ", "c">>
    /\ gift_ideas[1][2].keyword = <<"A">>


\* C13: clean_text applied to its own output changes nothing.
C13_CleanIdempotent ==
    pc[1] = "filter" => clean_text(cleaned_text[1]) = cleaned_text[1]

\* a text with a decoration inside a list marker, which clean_text changes
C13_Witness ==
    /\ pc[1] = "filter"
    /\ response_text[1] = <<"1", "*", ".", "a">>
    /\ cleaned_text[1] = <<"a">>

\* number of occurrences of the character c in s
RECURSIVE Count(_, _)
Count(s, c) ==
    IF s = <<>> THEN 0
    ELSE (IF Head(s) = c THEN 1 ELSE 0) + Count(Tail(s), c)

\* the text between the newlines, as a list of lines
LinesOf(s) == split(s)

\* C14: clean_text leaves the newlines alone: the output has as many
\* newlines as the input, so a line that ends in digits and a dot stays apart
\* from the line after it.
C14_NewlinesKept ==
    pc[1] = "filter" =>
        /\ Count(cleaned_text[1], "\n") = Count(response_text[1], "\n")
        /\ Len(LinesOf(cleaned_text[1])) = Len(LinesOf(response_text[1]))

\* length of a list marker "digits, dot, space" at the start of s, else 0
ListMarkerLen(s) ==
    LET d == RunLen(s, Digits)
    IN  IF d > 0 /\ Len(s) >= d + 2 /\ s[d + 1] = "." /\ s[d + 2] = " " THEN d + 2 ELSE 0

\* s without '*', '-' and the list markers "digits, dot, space"
RECURSIVE WithoutListMarkers(_)
WithoutListMarkers(s) ==
    IF s = <<>> THEN s
    ELSE LET m == ListMarkerLen(s)
         IN  IF m > 0 THEN WithoutListMarkers(SubSeq(s, m + 1, Len(s)))
             ELSE <<Head(s)>> \o WithoutListMarkers(Tail(s))

\* C15: clean_text removes '*', '-' and the list markers "digits, dot,
\* space" and nothing else; digits before a dot that no space follows stay.
C15_OnlyMarkersRemoved ==
    pc[1] = "filter" =>
        cleaned_text[1] = WithoutListMarkers(RemoveDecorations(response_text[1]))


\* C16: the name lines read before a Reason line form one keyword, the
\* trimmed lines in order with exactly one space between neighbours, less a
\* leading "Product_name:" label; "Delta\nwidget deluxe\nReason: nice" gives
\* (Delta widget deluxe, nice).
C16_MultiLineNameJoined ==
    pc[1] = "filter" =>
        /\ LET lines == split(cleaned_text[1])
               done == Completed(lines)
           IN  \A k \in 1..Len(done) :
                  LET run == NameRun(lines, done[k] - 1)
                  IN  Len(run) >= 2 =>
                         /\ k <= Len(gift_ideas[1])
                         /\ gift_ideas[1][k].keyword =
                               DropLabel(run[1] \o <<" ">> \o JoinWithSpace(Tail(run)))
        /\ response_text[1] = MultiLineNameText =>
              gift_ideas[1] = << [keyword |-> <<"D", "e", "l", "t", "a", " ", "w", "i", "d", "g", "e", "t", " ", "d", "e", "l", "u", "x", "e">>,
                                  reason |-> <<"n", "i", "c", "e">>] >>

\* a labelled name on two lines, joined with one space and without its label
C16_Witness ==
    /\ pc[1] = "filter"
    /\ split(cleaned_text[1]) = << <<"P", "r", "o", "d", "u", "c", "t", "_", "n", "a", "m", "e", ":", " ", "A">>,
                                   <<" ", "b", " ", "c">>,
                                   <<"R", "e", "a", "s", "o", "n", ":", " ", "x">> >>
    /\ gift_ideas[1] = << [keyword |-> <<"A", " ", "b", " ", "c">>, reason |-> <<"x">>] >>

\* position of the first occurrence of p in s, 0 when there is none
RECURSIVE FindFrom(_, _, _)
FindFrom(s, p, k) ==
    IF k + Len(p) - 1 > Len(s) THEN 0
    ELSE IF SubSeq(s, k, k + Len(p) - 1) = p THEN k ELSE FindFrom(s, p, k + 1)

\* the text after the marker of a Reason line, trimmed
AfterMarker(l) ==
    LET line == strip(l)
        at == FindFrom(line, ReasonMarker, 1)
    IN  strip(SubSeq(line, at + Len(ReasonMarker), Len(line)))

\* C17: the reason of every record is the trimmed text after the marker of a
\* Reason line of the text; what stands before the marker on that line is no
\* part of it.
C17_ReasonIsTextAfterMarker ==
    pc[1] = "filter" =>
        LET lines == split(cleaned_text[1])
        IN  \A k \in 1..Len(gift_ideas[1]) :
               \E n \in 1..Len(lines) :
                   IsReasonLine(lines[n]) /\ gift_ideas[1][k].reason = AfterMarker(lines[n])


\* C18: in a request the language-model call has returned before anything is
\* extracted; the searches are issued in the order of the deduplicated ideas,
\* one per idea and never twice for one idea, and a search is issued only
\* when every earlier one has returned or raised.
C18_CallsInSequence ==
    \A r \in Requests :
        /\ (pc[r] \in {"extract", "filter", "extend", "search", "await"}
               \/ cleaned_text[r] # <<>> \/ gift_ideas[r] # <<>> \/ calls[r] # <<>>)
              => model_call[r] = "returned"
        /\ Len(calls[r]) <= Len(unique_gift_ideas[r])
        /\ Len(calls[r]) = i[r]
        /\ \A k \in 1..Len(calls[r]) :
              /\ calls[r][k].keywords = unique_gift_ideas[r][k].keyword
              /\ calls[r][k].outcome = "pending" => (k = Len(calls[r]) /\ pc[r] = "await")
              /\ calls[r][k].outcome = "fault" => (k = Len(calls[r]) /\ pc[r] = "done")
        /\ pc[r] = "await" => calls[r][Len(calls[r])].outcome = "pending"
        /\ http[r].status = 200 => Len(calls[r]) = Len(unique_gift_ideas[r])

\* the search for the second idea is pending after the first one raised
C18_Witness ==
    \E r \in Requests :
        /\ Len(calls[r]) = 2
        /\ calls[r][1].outcome = "api_exception"
        /\ calls[r][2].outcome = "pending"
        /\ model_call[r] = "returned"

\* C19: a request that ends with the error response leaves all_gift_ideas as
\* it found it: every pair of the list was accepted by a request that is
\* still being served or has answered with success.
C19_FailedRequestLeavesSeenSet ==
    \A k \in 1..Len(all_gift_ideas) :
        \E r \in Requests :
            /\ PastExtend(r)
            /\ all_gift_ideas[k] \in Range(unique_gift_ideas[r])
            /\ http[r].status # 500

====
